---- MODULE Spec2Model ----
(***************************************************************************)
(* GutSense backend: the four serverless handlers (analyze-food,           *)
(* analyze-food-simple, test, health), the rule-based compatibility        *)
(* engine and the profile / food-analysis stores.                          *)
(***************************************************************************)
EXTENDS Integers, Sequences, FiniteSets, TLC

VARIABLES apiKey,    \* process.env.GEMINI_API_KEY is set
          now,       \* wall clock read by new Date() / Date.now()
          req,       \* per invocation: the inbound request
          pc,        \* per invocation: "idle", "awaiting" (suspended at the AI call), "done"
          ai,        \* per invocation: outcome of model.generateContent
          aiCalls,   \* per invocation: the imageData of every generateContent call
          res,       \* per invocation: the response sent
          sent,      \* per invocation: how many responses were sent
          profiles,  \* gut_profiles table: at most one row per user
          reply,     \* result of the latest profile store / rule engine operation
          analyses,  \* food_analyses table
          nextId,    \* next value of the food_analyses id sequence
          calls,     \* deleteById calls: the request and, once returned, its result
          ledger,    \* per analysis id: its owner, the operations that removed its row and
                     \* the callers of these operations
          out,       \* result of the latest listForUser, getById or stats
          gut_profiles,  \* gut_profiles table as a set of rows, under concurrent upserts
          writes     \* upsert calls: the request and, once committed, its commit order

handlerVars == <<apiKey, now, req, pc, ai, aiCalls, res, sent>>
engineVars == <<profiles, reply, gut_profiles, writes>>
storeVars == <<analyses, nextId, calls, ledger, out>>
vars == <<apiKey, now, req, pc, ai, aiCalls, res, sent, profiles, reply, gut_profiles, writes,
          analyses, nextId, calls, ledger, out>>

(***************************************************************************)
(* Bounds                                                                  *)
(***************************************************************************)
MaxTime == 1
NumConcurrent == 2
MaxCats == 2
MaxRecords == 2
MaxCalls == 3
MaxHistory == 3
MaxWrites == 2

(***************************************************************************)
(* Requests                                                                *)
(***************************************************************************)
Kinds == {"analyze-food", "analyze-food-simple", "test", "health"}
Methods == {"OPTIONS", "GET", "POST"}

\* JavaScript values the image field of a body can hold
Images == {"undefined", "null", "empty", "number", "b64", "dataurl"}
FoodNames == {"undefined", "idli"}

AbsentBody == [present |-> FALSE, image |-> "undefined", food_name |-> "undefined"]
Bodies == {AbsentBody} \cup [present : {TRUE}, image : Images, food_name : FoodNames]

RequestInputs == [kind : Kinds, method : Methods, body : Bodies]

NoRequest == [kind |-> "none", method |-> "none", body |-> AbsentBody]

\* !image is false
Truthy(image) == image \in {"number", "b64", "dataurl"}

\* typeof image === 'string'
IsString(image) == image \in {"empty", "b64", "dataurl"}

(***************************************************************************)
(* Responses                                                               *)
(***************************************************************************)
NoFields == [k \in {} |-> "x"]

NoResponse == [status |-> 0, kind |-> "none", fields |-> NoFields, headers |-> {}]

\* res.status(s).end()
End(s, h) == [status |-> s, kind |-> "empty", fields |-> NoFields, headers |-> h]

\* res.status(s).json(object)
Json(s, f, h) == [status |-> s, kind |-> "object", fields |-> f, headers |-> h]

\* res.status(s).json(array): JSON.stringify drops an array's named properties
JsonArray(s, h) == [status |-> s, kind |-> "array", fields |-> NoFields, headers |-> h]

CorsHeaders == {"Access-Control-Allow-Origin", "Access-Control-Allow-Methods",
                "Access-Control-Allow-Headers"}

HealthHeaders == CorsHeaders \cup {"Access-Control-Max-Age"}

(***************************************************************************)
(* The text returned by the AI service, as a sequence of tokens            *)
(***************************************************************************)
JsonTokens == {"{full}", "{badreaction}", "{sparse}", "{spoof}", "null", "42", "[]"}

AITexts == { <<"{full}">>,
             <<"fence_json", "{full}", "fence">>,
             <<"fence", "{full}", "fence">>,
             <<"ws", "{full}", "ws">>,
             <<"fence_JSON", "{full}", "fence">>,
             <<"prose">>,
             <<"prose", "fence_json", "{full}", "fence">>,
             <<>>,
             <<"{badreaction}">>,
             <<"{sparse}">>,
             <<"{spoof}">>,
             <<"null">>,
             <<"42">>,
             <<"[]">> }

\* text.replace(/fence_json\n?/g, "") where fence_json is three backticks and json
StripJsonFence(text) == SelectSeq(text, LAMBDA t : t # "fence_json")

\* .replace(/fence\n?/g, ""): the three backticks of any other fence go, its label stays
StripFence(text) ==
    SelectSeq([i \in 1..Len(text) |-> IF text[i] = "fence_JSON" THEN "JSON" ELSE text[i]],
              LAMBDA t : t # "fence")

RECURSIVE TrimLeft(_)
TrimLeft(s) == IF s # <<>> /\ Head(s) = "ws" THEN TrimLeft(Tail(s)) ELSE s

RECURSIVE TrimRight(_)
TrimRight(s) == IF s # <<>> /\ s[Len(s)] = "ws" THEN TrimRight(SubSeq(s, 1, Len(s) - 1)) ELSE s

\* .trim()
Trim(s) == TrimRight(TrimLeft(s))

CleanText(text) == Trim(StripFence(StripJsonFence(text)))

FullObject(reaction, method) ==
    [name |-> "Idli", category |-> "indian_fermented", confidence |-> 92, spiceLevel |-> 0,
     gutImpact |-> "low", fermented |-> TRUE, reaction |-> reaction,
     explanation |-> "Idli is perfect for gut health",
     alternatives |-> <<"Dosa", "Dhokla", "Steamed rice">>,
     tips |-> <<"Perfect for any time">>,
     nutritionalInfo |-> [calories |-> "39 per piece", fiber |-> "medium",
                          probiotics |-> TRUE, inflammatory |-> FALSE],
     recognitionMethod |-> method, timestamp |-> 0]

ParseError == [type |-> "error", fields |-> NoFields]

TokenValue(tok) ==
    CASE tok = "{full}" -> [type |-> "object", fields |-> FullObject("excellent", "gemini_ai")]
      [] tok = "{badreaction}" -> [type |-> "object", fields |-> FullObject("banana", "gemini_ai")]
      [] tok = "{spoof}" -> [type |-> "object",
                             fields |-> FullObject("suitable", "gemini_ai_fallback")]
      [] tok = "{sparse}" -> [type |-> "object", fields |-> [name |-> "Idli"]]
      [] tok = "null" -> [type |-> "null", fields |-> NoFields]
      [] tok = "42" -> [type |-> "number", fields |-> NoFields]
      [] tok = "[]" -> [type |-> "array", fields |-> NoFields]

\* JSON.parse: one JSON value and nothing else, or a SyntaxError
JSONParse(s) == IF Len(s) = 1 /\ s[1] \in JsonTokens THEN TokenValue(s[1]) ELSE ParseError

(***************************************************************************)
(* analyze-food-simple, test and health handlers: no suspension point      *)
(***************************************************************************)
\* MockAnalysis with a confidence computed from the clock
MockAnalysis_TimedConfidence(t) ==
    [name |-> "Indian Food Detected", category |-> "indian", confidence |-> 85 + t,
     spiceLevel |-> 3, gutImpact |-> "medium", fermented |-> FALSE, reaction |-> "caution",
     explanation |-> "This appears to be an Indian dish",
     alternatives |-> <<"Plain rice", "Steamed vegetables", "Yogurt">>,
     tips |-> <<"Eat slowly", "Drink water", "Monitor your response">>,
     nutritionalInfo |-> [calories |-> "200-400 per serving", fiber |-> "medium",
                          probiotics |-> FALSE, inflammatory |-> FALSE],
     recognitionMethod |-> "mock_analysis", timestamp |-> t,
     note |-> "This is a mock response"]

MockAnalysis(t) ==
    [name |-> "Indian Food Detected", category |-> "indian", confidence |-> 85,
     spiceLevel |-> 3, gutImpact |-> "medium", fermented |-> FALSE, reaction |-> "caution",
     explanation |-> "This appears to be an Indian dish",
     alternatives |-> <<"Plain rice", "Steamed vegetables", "Yogurt">>,
     tips |-> <<"Eat slowly", "Drink water", "Monitor your response">>,
     nutritionalInfo |-> [calories |-> "200-400 per serving", fiber |-> "medium",
                          probiotics |-> FALSE, inflammatory |-> FALSE],
     recognitionMethod |-> "mock_analysis", timestamp |-> t,
     note |-> "This is a mock response"]

\* const { image } = req.body throws a TypeError when req.body is undefined
SimpleHandler(q, t) ==
    IF q.method = "OPTIONS" THEN End(200, CorsHeaders)
    ELSE IF q.method # "POST"
    THEN Json(405, [error |-> "Method not allowed"], CorsHeaders)
    ELSE IF ~q.body.present
    THEN Json(500, [error |-> "Analysis failed", message |-> "TypeError", timestamp |-> t],
              CorsHeaders)
    ELSE IF ~Truthy(q.body.image)
    THEN Json(400, [error |-> "Image required"], CorsHeaders)
    ELSE Json(200, MockAnalysis(t), CorsHeaders)

TestHandler(q, t) ==
    IF q.method = "OPTIONS" THEN End(200, CorsHeaders)
    ELSE Json(200, [status |-> "success", message |-> "Backend is working!", timestamp |-> t,
                    method |-> q.method, cors |-> "enabled"], CorsHeaders)

\* HealthHandler reporting the key as configured whatever the environment
HealthHandler_AlwaysConfigured(q, key, t) ==
    IF q.method = "OPTIONS" THEN End(200, HealthHeaders)
    ELSE Json(200, [status |-> "healthy", message |-> "GutSense Backend API is running!",
                    version |-> "1.0.0", timestamp |-> t, cors |-> "enabled",
                    gemini |-> "configured"],
              HealthHeaders)

HealthHandler(q, key, t) ==
    IF q.method = "OPTIONS" THEN End(200, HealthHeaders)
    ELSE Json(200, [status |-> "healthy", message |-> "GutSense Backend API is running!",
                    version |-> "1.0.0", timestamp |-> t, cors |-> "enabled",
                    gemini |-> IF key THEN "configured" ELSE "not_configured"],
              HealthHeaders)

(***************************************************************************)
(* analyze-food handler                                                    *)
(***************************************************************************)
\* the catch block on a response that lost its headers
ErrorResponse_NoCors(t) ==
    Json(500, [error |-> "Analysis failed", message |-> "error.message",
               recognitionMethod |-> "error", timestamp |-> t], {})

\* the catch block of the handler
ErrorResponse(t) ==
    Json(500, [error |-> "Analysis failed", message |-> "error.message",
               recognitionMethod |-> "error", timestamp |-> t], CorsHeaders)

\* a data URL is split into its payload and mime type, anything else is taken as jpeg base64
ImageData(image) ==
    IF image = "dataurl" THEN [data |-> "payload", mimeType |-> "image/png"]
    ELSE [data |-> image, mimeType |-> "image/jpeg"]

\* ImageMissing as image === null
ImageMissing_NullOnly(image) == image = "null"

\* !image
ImageMissing(image) == ~Truthy(image)

\* AnalyzeStart with the configuration guard ahead of the method guards
AnalyzeStart_KeyFirst(q, key, t) ==
    IF ~key
    THEN [await |-> FALSE,
          res |-> Json(500, [error |-> "Configuration error",
                             message |-> "API key not configured"], CorsHeaders)]
    ELSE IF q.method = "OPTIONS" THEN [await |-> FALSE, res |-> End(200, CorsHeaders)]
    ELSE IF q.method # "POST"
    THEN [await |-> FALSE,
          res |-> Json(405, [error |-> "Method not allowed",
                             message |-> "Only POST requests are supported"], CorsHeaders)]
    ELSE IF ~q.body.present
    THEN [await |-> FALSE, res |-> ErrorResponse(t)]
    ELSE IF ImageMissing(q.body.image)
    THEN [await |-> FALSE,
          res |-> Json(400, [error |-> "Bad request",
                             message |-> "Image data is required"], CorsHeaders)]
    ELSE IF ~IsString(q.body.image)
    THEN [await |-> FALSE, res |-> ErrorResponse(t)]
    ELSE [await |-> TRUE, res |-> NoResponse]

\* The handler up to its first await: the response it sends, or the suspension at the AI call
AnalyzeStart(q, key, t) ==
    IF q.method = "OPTIONS" THEN [await |-> FALSE, res |-> End(200, CorsHeaders)]
    ELSE IF q.method # "POST"
    THEN [await |-> FALSE,
          res |-> Json(405, [error |-> "Method not allowed",
                             message |-> "Only POST requests are supported"], CorsHeaders)]
    ELSE IF ~key
    THEN [await |-> FALSE,
          res |-> Json(500, [error |-> "Configuration error",
                             message |-> "API key not configured"], CorsHeaders)]
    ELSE IF ~q.body.present
    THEN [await |-> FALSE, res |-> ErrorResponse(t)]
    ELSE IF ImageMissing(q.body.image)
    THEN [await |-> FALSE,
          res |-> Json(400, [error |-> "Bad request",
                             message |-> "Image data is required"], CorsHeaders)]
    ELSE IF ~IsString(q.body.image)
    THEN [await |-> FALSE, res |-> ErrorResponse(t)]
    ELSE [await |-> TRUE, res |-> NoResponse]

\* FallbackAnalysis without its alternatives
FallbackAnalysis_NoAlternatives(t) ==
    [name |-> "Food Analysis", category |-> "unknown", confidence |-> 75, spiceLevel |-> 2,
     gutImpact |-> "medium", fermented |-> FALSE, reaction |-> "caution",
     explanation |-> "AI analysis completed but response format needs adjustment",
     tips |-> <<"Eat in moderation", "Monitor your body's response", "Stay hydrated">>,
     nutritionalInfo |-> [calories |-> "varies", fiber |-> "medium",
                          probiotics |-> FALSE, inflammatory |-> FALSE],
     recognitionMethod |-> "gemini_ai_fallback", timestamp |-> t,
     note |-> "Response parsing issue - using fallback analysis"]

FallbackAnalysis(t) ==
    [name |-> "Food Analysis", category |-> "unknown", confidence |-> 75, spiceLevel |-> 2,
     gutImpact |-> "medium", fermented |-> FALSE, reaction |-> "caution",
     explanation |-> "AI analysis completed but response format needs adjustment",
     alternatives |-> <<"Steamed vegetables", "Plain rice", "Yogurt">>,
     tips |-> <<"Eat in moderation", "Monitor your body's response", "Stay hydrated">>,
     nutritionalInfo |-> [calories |-> "varies", fiber |-> "medium",
                          probiotics |-> FALSE, inflammatory |-> FALSE],
     recognitionMethod |-> "gemini_ai_fallback", timestamp |-> t,
     note |-> "Response parsing issue - using fallback analysis"]

\* analysisData.apiVersion, .model, .processingTime
Metadata(t) == [apiVersion |-> "1.0", model |-> "gemini-2.0-flash-exp", processingTime |-> t]

\* the inner try/catch around JSON.parse
ParseAnalysis(text, t) ==
    LET parsed == JSONParse(CleanText(text))
    IN  IF parsed.type = "error"
        THEN [type |-> "object", fields |-> FallbackAnalysis(t)]
        ELSE parsed

\* The handler after the AI call has settled.  The module is strict code: setting a property
\* on null or on a primitive throws a TypeError, which the outer catch turns into a 500.
AnalyzeFinish(outcome, t) ==
    IF outcome.state = "rejected" THEN ErrorResponse(t)
    ELSE LET analysisData == ParseAnalysis(outcome.text, t)
         IN  IF analysisData.type \in {"null", "number"} THEN ErrorResponse(t)
             ELSE IF analysisData.type = "array" THEN JsonArray(200, CorsHeaders)
             ELSE Json(200, Metadata(t) @@ analysisData.fields, CorsHeaders)

NoOutcome == [state |-> "none", text |-> <<>>]

(***************************************************************************)
(* Actions                                                                 *)
(***************************************************************************)
Invocations == DOMAIN pc

\* Receive with a row of food_analyses inserted ahead of the AI call, to be filled in later
Receive_WritesPartialRecord(r, q) ==
    /\ pc[r] = "idle"
    /\ req' = [req EXCEPT ![r] = q]
    /\ IF q.kind = "analyze-food"
       THEN LET s == AnalyzeStart(q, apiKey, now)
            IN  IF s.await
                THEN /\ pc' = [pc EXCEPT ![r] = "awaiting"]
                     /\ aiCalls' = [aiCalls EXCEPT ![r] = Append(@, ImageData(q.body.image))]
                     /\ ai' = [ai EXCEPT ![r] = [state |-> "pending", text |-> <<>>]]
                     /\ analyses' = analyses \cup {[id |-> nextId, food_name |-> q.body.food_name]}
                     /\ UNCHANGED <<res, sent>>
                ELSE /\ pc' = [pc EXCEPT ![r] = "done"]
                     /\ res' = [res EXCEPT ![r] = s.res]
                     /\ sent' = [sent EXCEPT ![r] = @ + 1]
                     /\ UNCHANGED <<ai, aiCalls, analyses>>
       ELSE /\ pc' = [pc EXCEPT ![r] = "done"]
            /\ res' = [res EXCEPT ![r] =
                          CASE q.kind = "analyze-food-simple" -> SimpleHandler(q, now)
                            [] q.kind = "test" -> TestHandler(q, now)
                            [] q.kind = "health" -> HealthHandler(q, apiKey, now)]
            /\ sent' = [sent EXCEPT ![r] = @ + 1]
            /\ UNCHANGED <<ai, aiCalls, analyses>>
    /\ UNCHANGED <<apiKey, now, engineVars, nextId, calls, ledger, out>>

\* A request arrives and its handler runs to its response or to its first await
Receive(r, q) ==
    /\ pc[r] = "idle"
    /\ req' = [req EXCEPT ![r] = q]
    /\ IF q.kind = "analyze-food"
       THEN LET s == AnalyzeStart(q, apiKey, now)
            IN  IF s.await
                THEN /\ pc' = [pc EXCEPT ![r] = "awaiting"]
                     /\ aiCalls' = [aiCalls EXCEPT ![r] = Append(@, ImageData(q.body.image))]
                     /\ ai' = [ai EXCEPT ![r] = [state |-> "pending", text |-> <<>>]]
                     /\ UNCHANGED <<res, sent>>
                ELSE /\ pc' = [pc EXCEPT ![r] = "done"]
                     /\ res' = [res EXCEPT ![r] = s.res]
                     /\ sent' = [sent EXCEPT ![r] = @ + 1]
                     /\ UNCHANGED <<ai, aiCalls>>
       ELSE /\ pc' = [pc EXCEPT ![r] = "done"]
            /\ res' = [res EXCEPT ![r] =
                          CASE q.kind = "analyze-food-simple" -> SimpleHandler(q, now)
                            [] q.kind = "test" -> TestHandler(q, now)
                            [] q.kind = "health" -> HealthHandler(q, apiKey, now)]
            /\ sent' = [sent EXCEPT ![r] = @ + 1]
            /\ UNCHANGED <<ai, aiCalls>>
    /\ UNCHANGED <<apiKey, now, engineVars, storeVars>>

\* AIResolve with one result slot shared by every suspended invocation
AIResolve_SharedResult(r, text) ==
    /\ pc[r] = "awaiting"
    /\ ai' = [ai EXCEPT ![r] = [state |-> "resolved", text |-> text]]
    /\ res' = [s \in DOMAIN res |->
                  IF pc[s] = "awaiting" THEN AnalyzeFinish(ai'[r], now) ELSE res[s]]
    /\ sent' = [s \in DOMAIN sent |-> IF pc[s] = "awaiting" THEN sent[s] + 1 ELSE sent[s]]
    /\ pc' = [s \in DOMAIN pc |-> IF pc[s] = "awaiting" THEN "done" ELSE pc[s]]
    /\ UNCHANGED <<apiKey, now, req, aiCalls, engineVars, storeVars>>

\* model.generateContent resolves with a text and the handler runs to its response
AIResolve(r, text) ==
    /\ pc[r] = "awaiting"
    /\ ai' = [ai EXCEPT ![r] = [state |-> "resolved", text |-> text]]
    /\ res' = [res EXCEPT ![r] = AnalyzeFinish(ai'[r], now)]
    /\ sent' = [sent EXCEPT ![r] = @ + 1]
    /\ pc' = [pc EXCEPT ![r] = "done"]
    /\ UNCHANGED <<apiKey, now, req, aiCalls, engineVars, storeVars>>

\* AIReject with a catch block that returns without a response
AIReject_NoResponse(r) ==
    /\ pc[r] = "awaiting"
    /\ ai' = [ai EXCEPT ![r] = [state |-> "rejected", text |-> <<>>]]
    /\ pc' = [pc EXCEPT ![r] = "done"]
    /\ UNCHANGED <<apiKey, now, req, aiCalls, res, sent, engineVars, storeVars>>

\* model.generateContent (or result.response, or response.text()) throws or times out
AIReject(r) ==
    /\ pc[r] = "awaiting"
    /\ ai' = [ai EXCEPT ![r] = [state |-> "rejected", text |-> <<>>]]
    /\ res' = [res EXCEPT ![r] = AnalyzeFinish(ai'[r], now)]
    /\ sent' = [sent EXCEPT ![r] = @ + 1]
    /\ pc' = [pc EXCEPT ![r] = "done"]
    /\ UNCHANGED <<apiKey, now, req, aiCalls, engineVars, storeVars>>

Tick ==
    /\ now < MaxTime
    /\ now' = now + 1
    /\ UNCHANGED <<apiKey, req, pc, ai, aiCalls, res, sent, engineVars, storeVars>>

\* No profile, no analysis, no call
EngineIdle == profiles = <<>> /\ reply = <<>> /\ gut_profiles = {} /\ writes = <<>>
StoreIdle == analyses = {} /\ nextId = 1 /\ calls = <<>> /\ ledger = <<>> /\ out = <<>>

InitOver(slots) ==
    /\ EngineIdle /\ StoreIdle
    /\ apiKey \in BOOLEAN
    /\ now = 0
    /\ req = [r \in slots |-> NoRequest]
    /\ pc = [r \in slots |-> "idle"]
    /\ ai = [r \in slots |-> NoOutcome]
    /\ aiCalls = [r \in slots |-> <<>>]
    /\ res = [r \in slots |-> NoResponse]
    /\ sent = [r \in slots |-> 0]

\* One invocation, every request and every AI outcome
Init == InitOver({1})

Next ==
    \/ Tick
    \/ \E r \in Invocations, q \in RequestInputs : Receive(r, q)
    \/ \E r \in Invocations, text \in AITexts : AIResolve(r, text)
    \/ \E r \in Invocations : AIReject(r)

Spec == Init /\ [][Next]_vars

\* The AI call of invocation r settles: the promise resolves or rejects
AISettles(r) == AIReject(r) \/ \E text \in AITexts : AIResolve(r, text)

\* The same handlers under the proviso that the AI call eventually settles
SpecLive == Init /\ [][Next]_vars /\ WF_vars(AISettles(1))

\* Several invocations in flight at once, on the requests that reach an analysis
ConcInputs ==
    { q \in RequestInputs :
        \/ /\ q.kind \in {"analyze-food", "analyze-food-simple"}
           /\ q.method = "POST"
           /\ q.body.present /\ q.body.image \in {"undefined", "b64", "dataurl"}
        \/ q.kind = "health" /\ q.method = "GET" /\ ~q.body.present }

ConcTexts == { <<"{full}">>, <<"fence_json", "{full}", "fence">>, <<"prose">>, <<"{badreaction}">>,
               <<"null">>, <<"[]">> }

InitConc == InitOver(1..NumConcurrent)

NextConc ==
    \/ Tick
    \/ \E r \in Invocations, q \in ConcInputs : Receive(r, q)
    \/ \E r \in Invocations, text \in ConcTexts : AIResolve(r, text)
    \/ \E r \in Invocations : AIReject(r)

SpecConc == InitConc /\ [][NextConc]_vars

(***************************************************************************)
(* Compatibility rule engine and profile store                             *)
(***************************************************************************)
Users == {"x", "y"}

Categories == {"fried", "spicy", "dairy", "acidic", "high_fiber", "fermented", "gentle",
               "processed"}
GutTypes == {"balanced", "high_inflammation", "low_diversity"}
Sensitivities == {"lactose", "ibs", "acidity"}
SpiceTolerances == 1..3

\* A default of low spice tolerance
DefaultSpiceTolerance_Low == 2 - 1

\* spice_tolerance INTEGER DEFAULT 2
DefaultSpiceTolerance == 2

Profiles == [gut_type : GutTypes, sensitivities : SUBSET Sensitivities,
             spice_tolerance : SpiceTolerances]

NoProfile == [gut_type |-> "none", sensitivities |-> {}, spice_tolerance |-> 0]

DefaultProfile ==
    [gut_type |-> "balanced", sensitivities |-> {}, spice_tolerance |-> DefaultSpiceTolerance]

CategorySets == { c \in SUBSET Categories : c # {} /\ Cardinality(c) <= MaxCats }

\* The condition of rule n
RuleHolds(n, cats, p) ==
    CASE n = 1 -> "lactose" \in p.sensitivities /\ "dairy" \in cats
      [] n = 2 -> p.gut_type = "high_inflammation" /\ "fried" \in cats
      [] n = 3 -> p.spice_tolerance = 1 /\ "spicy" \in cats
      [] n = 4 -> "fermented" \in cats \/ "high_fiber" \in cats
      [] n = 5 -> "acidic" \in cats /\ "acidity" \in p.sensitivities
      [] n = 6 -> TRUE

\* classify: the IF/ELSE chain
classify(cats, p) ==
    IF "lactose" \in p.sensitivities /\ "dairy" \in cats
    THEN [rule |-> 1, reaction |-> "avoid"]
    ELSE IF p.gut_type = "high_inflammation" /\ "fried" \in cats
    THEN [rule |-> 2, reaction |-> "avoid"]
    ELSE IF p.spice_tolerance = 1 /\ "spicy" \in cats
    THEN [rule |-> 3, reaction |-> "avoid"]
    ELSE IF "fermented" \in cats \/ "high_fiber" \in cats
    THEN [rule |-> 4, reaction |-> "suitable"]
    ELSE IF "acidic" \in cats /\ "acidity" \in p.sensitivities
    THEN [rule |-> 5, reaction |-> "caution"]
    ELSE [rule |-> 6, reaction |-> IF "processed" \in cats THEN "caution" ELSE "suitable"]

\* The DEPLOYMENT.md listing with its first two rules swapped
DeploymentListing_GutTypeFirst == <<2, 1, 3>>

\* The rule listings of the documentation, in the order they are written
DeploymentListing == <<1, 2, 3>>
ReadmeListing == <<2, 1, 3>>

\* The first rule of a listing whose condition holds, 0 when none does
RECURSIVE ListingFirst(_, _, _)
ListingFirst(listing, cats, p) ==
    IF listing = <<>> THEN 0
    ELSE IF RuleHolds(Head(listing), cats, p) THEN Head(listing)
    ELSE ListingFirst(Tail(listing), cats, p)

\* get: the stored profile, or the defaults
get(u) == IF profiles[u] = NoProfile THEN DefaultProfile ELSE profiles[u]

NoVerdict == [rule |-> 0, reaction |-> "none"]
NoReply == [op |-> "none", user |-> "none", cats |-> {}, profile |-> NoProfile,
            verdict |-> NoVerdict]

Upsert(u, p) ==
    /\ profiles' = [profiles EXCEPT ![u] = p]
    /\ reply' = [NoReply EXCEPT !.op = "upsert", !.user = u, !.profile = p]
    /\ UNCHANGED <<handlerVars, storeVars, gut_profiles, writes>>

DeleteProfile(u) ==
    /\ profiles' = [profiles EXCEPT ![u] = NoProfile]
    /\ reply' = [NoReply EXCEPT !.op = "delete", !.user = u]
    /\ UNCHANGED <<handlerVars, storeVars, gut_profiles, writes>>

Get(u) ==
    /\ reply' = [NoReply EXCEPT !.op = "get", !.user = u, !.profile = get(u)]
    /\ UNCHANGED <<handlerVars, storeVars, profiles, gut_profiles, writes>>

\* An analysis: the caller's profile (or the defaults) and the food's categories are classified
Analyze(u, cats) ==
    /\ reply' = [op |-> "classify", user |-> u, cats |-> cats, profile |-> get(u),
                 verdict |-> classify(cats, get(u))]
    /\ UNCHANGED <<handlerVars, storeVars, profiles, gut_profiles, writes>>

HandlerIdle ==
    /\ apiKey = FALSE /\ now = 0
    /\ req = <<>> /\ pc = <<>> /\ ai = <<>> /\ aiCalls = <<>> /\ res = <<>> /\ sent = <<>>

InitEngine ==
    /\ HandlerIdle /\ StoreIdle
    /\ profiles = [u \in {"x"} |-> NoProfile]
    /\ reply = NoReply
    /\ gut_profiles = {} /\ writes = <<>>

NextEngine ==
    \/ \E u \in DOMAIN profiles, p \in Profiles : Upsert(u, p)
    \/ \E u \in DOMAIN profiles : DeleteProfile(u)
    \/ \E u \in DOMAIN profiles : Get(u)
    \/ \E u \in DOMAIN profiles, cats \in CategorySets : Analyze(u, cats)

SpecEngine == InitEngine /\ [][NextEngine]_vars

(***************************************************************************)
(* Profile store under concurrent upserts                                  *)
(***************************************************************************)
\* A row of the gut_profiles table
ProfileRow(u, p) ==
    [user_id |-> u, gut_type |-> p.gut_type, sensitivities |-> p.sensitivities,
     spice_tolerance |-> p.spice_tolerance]

\* Profiles that differ from one another in every column
UpsertValues ==
    { [gut_type |-> "balanced", sensitivities |-> {}, spice_tolerance |-> 2],
      [gut_type |-> "high_inflammation", sensitivities |-> {"lactose"}, spice_tolerance |-> 1],
      [gut_type |-> "low_diversity", sensitivities |-> {"acidity", "ibs"},
       spice_tolerance |-> 3] }

NoWrite == [state |-> "idle", user |-> "none", profile |-> NoProfile, base |-> 0, order |-> 0]

\* The number of upserts committed so far
Commits == Cardinality({ w \in DOMAIN writes : writes[w].state = "committed" })

\* An upsert as a plain insert
UpsertRows_InsertOnly(rows, u, p) == rows \cup {ProfileRow(u, p)}

\* The native atomic upsert: insert, or on a conflict on user_id replace the whole row
UpsertRows(rows, u, p) == { row \in rows : row.user_id # u } \cup {ProfileRow(u, p)}

\* upsert(userId, profile) arrives
UpsertStart(w, u, p) ==
    /\ writes[w].state = "idle"
    /\ writes' = [writes EXCEPT ![w] = [NoWrite EXCEPT !.state = "started", !.user = u,
                                                       !.profile = p, !.base = Commits]]
    /\ UNCHANGED <<handlerVars, storeVars, profiles, reply, gut_profiles>>

\* The store executes the upsert of call w
UpsertCommit(w) ==
    /\ writes[w].state = "started"
    /\ gut_profiles' = UpsertRows(gut_profiles, writes[w].user, writes[w].profile)
    /\ writes' = [writes EXCEPT ![w].state = "committed", ![w].order = Commits + 1]
    /\ UNCHANGED <<handlerVars, storeVars, profiles, reply>>

InitProfiles ==
    /\ HandlerIdle /\ StoreIdle
    /\ profiles = <<>> /\ reply = <<>>
    /\ gut_profiles = {}
    /\ writes = [w \in 1..MaxWrites |-> NoWrite]

NextProfiles ==
    \/ \E w \in DOMAIN writes, u \in Users, p \in UpsertValues : UpsertStart(w, u, p)
    \/ \E w \in DOMAIN writes : UpsertCommit(w)

SpecProfiles == InitProfiles /\ [][NextProfiles]_vars

(***************************************************************************)
(* Food analysis record store                                              *)
(***************************************************************************)
AnalysisIds == 1..MaxRecords
CallIds == 1..MaxCalls

NoCall == [state |-> "idle", user |-> "none", id |-> 0, result |-> "none", created |-> FALSE]
NoEntry == [owner |-> "none", removed |-> <<>>, by |-> <<>>]

\* The rows of user u
RowsOf(u) == { a \in analyses : a.user = u }

\* The row with this id, whoever owns it
Owned_AnyUser(u, id) == { a \in analyses : a.id = id }

\* The row with this id owned by u, if any
Owned(u, id) == { a \in analyses : a.id = id /\ a.user = u }

Reactions == {"suitable", "caution", "avoid"}

NoCounts == [r \in Reactions |-> 0]
NoOut == [op |-> "none", user |-> "none", id |-> 0, result |-> "none", rows |-> <<>>,
          counts |-> NoCounts]

\* A whole row of the food_analyses table; successive inserts get later creation times
Row(id, u, reaction) ==
    [id |-> id, user |-> u, created_at |-> id, food_name |-> "idli", reaction |-> reaction,
     explanation |-> "explanation"]

\* record(userId, analysis): a new row under the next id of the sequence
record(u, reaction) ==
    /\ nextId \in DOMAIN ledger
    /\ analyses' = analyses \cup {Row(nextId, u, reaction)}
    /\ ledger' = [ledger EXCEPT ![nextId].owner = u]
    /\ nextId' = nextId + 1
    /\ out' = NoOut
    /\ UNCHANGED <<handlerVars, engineVars, calls>>

Record(u) == record(u, "caution")

\* DELETE /api/food/history/{id} arrives
DeleteStart(c, u, id) ==
    /\ calls[c].state = "idle"
    /\ calls' = [calls EXCEPT ![c] = [NoCall EXCEPT !.state = "started", !.user = u, !.id = id]]
    /\ out' = NoOut
    /\ UNCHANGED <<handlerVars, engineVars, analyses, nextId, ledger>>

\* DeleteResult that ignores the row count
DeleteResult_IgnoresRowCount(found) == "success"

\* What deleteById returns, from whether it found a row to remove
DeleteResult(found) == IF found THEN "success" ELSE "NotFound"

\* deleteById: one conditional delete, scoped to the caller's own row
deleteById(c) ==
    LET u == calls[c].user
        id == calls[c].id
        found == Owned(u, id) # {}
    IN  /\ calls[c].state = "started"
        /\ analyses' = analyses \ Owned(u, id)
        /\ ledger' = IF found
                     THEN [ledger EXCEPT ![id].removed = Append(@, "deleteById"),
                                         ![id].by = Append(@, u)]
                     ELSE ledger
        /\ calls' = [calls EXCEPT ![c].state = "returned",
                                  ![c].result = DeleteResult(found),
                                  ![c].created = (id < nextId)]
        /\ out' = NoOut
        /\ UNCHANGED <<handlerVars, engineVars, nextId>>

\* clearAll: every row of the caller
clearAll(u) ==
    /\ RowsOf(u) # {}
    /\ analyses' = analyses \ RowsOf(u)
    /\ ledger' = [id \in DOMAIN ledger |->
                    IF \E a \in RowsOf(u) : a.id = id
                    THEN [ledger[id] EXCEPT !.removed = Append(@, "clearAll"),
                                            !.by = Append(@, u)]
                    ELSE ledger[id]]
    /\ out' = NoOut
    /\ UNCHANGED <<handlerVars, engineVars, nextId, calls>>

InitStore ==
    /\ HandlerIdle /\ EngineIdle
    /\ analyses = {}
    /\ nextId = 1
    /\ calls = [c \in CallIds |-> NoCall]
    /\ ledger = [id \in AnalysisIds |-> NoEntry]
    /\ out = NoOut

NextStore ==
    \/ \E u \in Users : Record(u)
    \/ \E c \in CallIds, u \in Users, id \in AnalysisIds : DeleteStart(c, u, id)
    \/ \E c \in CallIds : deleteById(c)
    \/ \E u \in Users : clearAll(u)

SpecStore == InitStore /\ [][NextStore]_vars

(***************************************************************************)
(* Reading the history: listForUser, getById, stats                        *)
(***************************************************************************)
\* The most recent row of a non-empty set of rows
Latest(rows) == CHOOSE a \in rows : \A b \in rows : b.created_at <= a.created_at

\* The oldest row of a non-empty set of rows
Oldest(rows) == CHOOSE a \in rows : \A b \in rows : a.created_at <= b.created_at

\* ORDER BY created_at ASC
RECURSIVE OldestFirst(_)
OldestFirst(rows) ==
    IF rows = {} THEN <<>> ELSE <<Oldest(rows)>> \o OldestFirst(rows \ {Oldest(rows)})

\* ORDER BY created_at DESC
RECURSIVE MostRecentFirst(_)
MostRecentFirst(rows) ==
    IF rows = {} THEN <<>> ELSE <<Latest(rows)>> \o MostRecentFirst(rows \ {Latest(rows)})

\* listForUser with the rows in insertion order
listForUser_OldestFirst(u) == OldestFirst(RowsOf(u))

\* listForUser(userId): the caller's rows, most recent first (one page holding them all)
listForUser(u) == MostRecentFirst(RowsOf(u))

\* stats(userId): the caller's rows counted per reaction
stats(u) == [r \in Reactions |-> Cardinality({ a \in RowsOf(u) : a.reaction = r })]

ListForUser(u) ==
    /\ out' = [NoOut EXCEPT !.op = "list", !.user = u, !.result = "ok", !.rows = listForUser(u)]
    /\ UNCHANGED <<handlerVars, engineVars, analyses, nextId, calls, ledger>>

\* getById(userId, id): the caller's own row with this id, or NotFound
GetById(u, id) ==
    /\ out' = [NoOut EXCEPT !.op = "getById", !.user = u, !.id = id,
                            !.result = IF Owned(u, id) # {} THEN "ok" ELSE "NotFound",
                            !.rows = MostRecentFirst(Owned(u, id))]
    /\ UNCHANGED <<handlerVars, engineVars, analyses, nextId, calls, ledger>>

Stats(u) ==
    /\ out' = [NoOut EXCEPT !.op = "stats", !.user = u, !.result = "ok", !.counts = stats(u)]
    /\ UNCHANGED <<handlerVars, engineVars, analyses, nextId, calls, ledger>>

\* The response of a returned deleteById call has been delivered; its slot serves again
Release(c) ==
    /\ calls[c].state = "returned"
    /\ calls' = [calls EXCEPT ![c] = NoCall]
    /\ out' = NoOut
    /\ UNCHANGED <<handlerVars, engineVars, analyses, nextId, ledger>>

InitHistory ==
    /\ HandlerIdle /\ EngineIdle
    /\ analyses = {}
    /\ nextId = 1
    /\ calls = [c \in {1} |-> NoCall]
    /\ ledger = [id \in 1..MaxHistory |-> NoEntry]
    /\ out = NoOut

NextHistory ==
    \/ \E u \in Users, reaction \in {"suitable", "avoid"} : record(u, reaction)
    \/ \E c \in DOMAIN calls, u \in Users, id \in DOMAIN ledger : DeleteStart(c, u, id)
    \/ \E c \in DOMAIN calls : deleteById(c)
    \/ \E c \in DOMAIN calls : Release(c)
    \/ \E u \in Users : clearAll(u)
    \/ \E u \in Users : ListForUser(u)
    \/ \E u \in Users, id \in DOMAIN ledger : GetById(u, id)
    \/ \E u \in Users : Stats(u)

SpecHistory == InitHistory /\ [][NextHistory]_vars

(***************************************************************************)
(* Properties of the handlers                                              *)
(***************************************************************************)
Done(r) == pc[r] = "done"

\* A POST to one of the two analysis endpoints
AnalysisPost(r) ==
    req[r].kind \in {"analyze-food", "analyze-food-simple"} /\ req[r].method = "POST"

Has(r, field) == field \in DOMAIN res[r].fields

\* The AI call returned a text that is not JSON once cleaned
ParseFailed(r) == ai[r].state = "resolved" /\ JSONParse(CleanText(ai[r].text)).type = "error"

\* The AI call returned a text that parses
ParseSucceeded(r) == ai[r].state = "resolved" /\ JSONParse(CleanText(ai[r].text)).type # "error"

\* C1: when the AI call fails on an analyze-food POST with an image and a configured key,
\* the caller gets a fallback classification with a reaction and a recognitionMethod that
\* marks it as not AI-derived, and no error response.
C1_UpstreamFailureRecovered ==
    \A r \in Invocations :
        (Done(r) /\ req[r].kind = "analyze-food" /\ ai[r].state = "rejected")
        => /\ res[r].status = 200
           /\ Has(r, "reaction")
           /\ Has(r, "recognitionMethod")
           /\ res[r].fields.recognitionMethod \notin {"gemini_ai", "error"}

\* C2: on every 200 response to an analyze-food POST, recognitionMethod is the fallback
\* marker exactly when the AI output could not be parsed.
C2_MarkerIffFallback ==
    \A r \in Invocations :
        (Done(r) /\ req[r].kind = "analyze-food" /\ req[r].method = "POST"
                 /\ res[r].status = 200)
        => ((Has(r, "recognitionMethod")
                /\ res[r].fields.recognitionMethod = "gemini_ai_fallback")
            <=> ParseFailed(r))

C4_ReactionInEnum ==
    \A r \in Invocations :
        (Done(r) /\ AnalysisPost(r) /\ res[r].status = 200)
        => /\ Has(r, "reaction")
           /\ res[r].fields.reaction \in
                 {"suitable", "caution", "avoid"}
                    \cup (IF req[r].kind = "analyze-food" /\ ParseSucceeded(r)
                          THEN {"excellent"} ELSE {})

\* A POST with a food_name and no image, past the configuration guard
NameOnlyPost(r) ==
    /\ Done(r) /\ AnalysisPost(r)
    /\ req[r].body.present /\ req[r].body.food_name # "undefined"
    /\ req[r].body.image = "undefined"
    /\ req[r].kind = "analyze-food" => apiKey

\* C5 as stated: a POST with a food_name and no image is answered with an analysis.
C5_ImageOptionalAsStated ==
    \A r \in Invocations : NameOnlyPost(r) => res[r].status = 200 /\ Has(r, "reaction")

\* C5 as amended: the image is required; a POST with a food_name and no image is rejected
\* with 400 and the AI service is not called.
C5_ImageRequired ==
    \A r \in Invocations :
        NameOnlyPost(r) => /\ res[r].status = 400
                           /\ ~Has(r, "reaction")
                           /\ aiCalls[r] = <<>>

\* analyze-food has rejected a POST that had a food_name and no image
C5_Witness ==
    \E r \in Invocations :
        NameOnlyPost(r) /\ req[r].kind = "analyze-food" /\ res[r].status = 400

\* C6: a POST to analyze-food whose body is absent or whose image is missing or not a
\* string gets a 4xx response, never a 500, and the AI service is not called.
C6_MalformedInputIs4xx ==
    \A r \in Invocations :
        (Done(r) /\ req[r].kind = "analyze-food" /\ req[r].method = "POST" /\ apiKey
            /\ (~req[r].body.present \/ ~IsString(req[r].body.image)))
        => /\ res[r].status \in 400..499
           /\ aiCalls[r] = <<>>

\* The verdict of a response: its status and its reaction, explanation and confidence
Verdict(rs) ==
    [status |-> rs.status, kind |-> rs.kind,
     fields |-> [k \in DOMAIN rs.fields \cap
                         {"reaction", "explanation", "confidence", "confidenceScore"}
                    |-> rs.fields[k]]]

MatchingRules(cats, p) == { n \in 1..6 : RuleHolds(n, cats, p) }

LowestRule(cats, p) ==
    CHOOSE n \in MatchingRules(cats, p) : \A m \in MatchingRules(cats, p) : n <= m

\* The outcome the rule list gives rule n
RuleReaction(n, cats) ==
    IF n \in {1, 2, 3} THEN "avoid"
    ELSE IF n = 4 THEN "suitable"
    ELSE IF n = 5 THEN "caution"
    ELSE IF "processed" \in cats THEN "caution" ELSE "suitable"

\* classify answered with the outcome of the lowest-numbered rule that holds
FirstMatchWins ==
    reply.op = "classify"
    => /\ reply.verdict.rule = LowestRule(reply.cats, reply.profile)
       /\ reply.verdict.reaction = RuleReaction(reply.verdict.rule, reply.cats)

C9_MissingProfileDefaults ==
    \A u \in DOMAIN profiles :
        (reply.user = u /\ profiles[u] = NoProfile)
        => /\ reply.op \in {"get", "classify"}
              => reply.profile = [gut_type |-> "balanced", sensitivities |-> {},
                                  spice_tolerance |-> 2]
           /\ reply.op = "classify" => reply.verdict.rule \in {4, 5, 6}

\* Spicy dairy food classified for a user without a profile
C9_Witness ==
    /\ reply.op = "classify"
    /\ profiles[reply.user] = NoProfile
    /\ reply.cats = {"spicy", "dairy"}
    /\ reply.verdict.rule = 6

(***************************************************************************)
(* Properties of the record store                                          *)
(***************************************************************************)
\* The returned deleteById calls of the owner of analysis id
OwnerCalls(id) ==
    { c \in CallIds : /\ calls[c].state = "returned" /\ calls[c].id = id
                      /\ calls[c].user = ledger[id].owner }

Successes(id) == { c \in OwnerCalls(id) : calls[c].result = "success" }

\* C10: among the deleteById calls of the owner on one record, sequential or interleaved,
\* exactly one returns success and every other returns NotFound; every call returns one of
\* the two and the row is removed once.
C10_DeleteIdempotent ==
    /\ \A c \in CallIds :
          calls[c].state = "returned" => calls[c].result \in {"success", "NotFound"}
    /\ \A id \in AnalysisIds :
          /\ Len(ledger[id].removed) <= 1
          /\ Cardinality(Successes(id)) <= 1
          /\ (\E a \in analyses : a.id = id) => Successes(id) = {}
          /\ \A c \in OwnerCalls(id) :
                calls[c].created
                => /\ ~ \E a \in analyses : a.id = id
                   /\ "clearAll" \notin { ledger[id].removed[i] : i \in DOMAIN ledger[id].removed }
                         => /\ Cardinality(Successes(id)) = 1
                            /\ ledger[id].removed = <<"deleteById">>

\* Two interleaved calls of the owner on the same record have both returned
C10_Witness ==
    \E c1, c2 \in CallIds, id \in AnalysisIds :
        /\ c1 # c2 /\ {c1, c2} \subseteq OwnerCalls(id)
        /\ calls[c1].created /\ calls[c2].created
        /\ calls[c1].result = "success" /\ calls[c2].result = "NotFound"

(***************************************************************************)
(* Properties of the responses: headers, guard order, health               *)
(***************************************************************************)
\* C16: every response of every handler and of every status carries the three
\* Access-Control-Allow headers; they are set before anything is sent.
C16_CorsOnEveryResponse ==
    \A r \in Invocations :
        /\ Done(r) => CorsHeaders \subseteq res[r].headers
        /\ ~Done(r) => res[r] = NoResponse

\* The catch block of analyze-food has answered 500 after the AI call failed
C16_Witness ==
    \E r \in Invocations :
        /\ Done(r) /\ req[r].kind = "analyze-food" /\ ai[r].state = "rejected"
        /\ res[r].status = 500 /\ CorsHeaders \subseteq res[r].headers

\* C17: analyze-food checks the method, then the key, then the image, and the first guard
\* that fires decides the response: OPTIONS gives an empty 200, another non-POST method 405,
\* an unset key 500 Configuration error, a body without an image 400; the AI service is
\* called only for a POST with the key set and an image, and at most once.
C17_GuardOrder ==
    \A r \in Invocations :
        (req[r].kind = "analyze-food" /\ pc[r] # "idle")
        => LET q == req[r]
           IN  /\ q.method = "OPTIONS" => res[r] = End(200, CorsHeaders)
               /\ q.method \notin {"OPTIONS", "POST"} => res[r].status = 405
               /\ (q.method = "POST" /\ ~apiKey)
                    => /\ res[r].status = 500
                       /\ res[r].fields.error = "Configuration error"
               /\ (q.method = "POST" /\ apiKey /\ q.body.present /\ ~Truthy(q.body.image))
                    => /\ res[r].status = 400
                       /\ res[r].fields.message = "Image data is required"
               /\ aiCalls[r] # <<>>
                    => q.method = "POST" /\ apiKey /\ q.body.present /\ Truthy(q.body.image)
               /\ Len(aiCalls[r]) <= 1

\* An OPTIONS request without a key and without a body was answered by the first guard
C17_Witness ==
    \E r \in Invocations :
        /\ Done(r) /\ req[r].kind = "analyze-food" /\ req[r].method = "OPTIONS"
        /\ ~apiKey /\ ~req[r].body.present
        /\ res[r] = End(200, CorsHeaders)

\* C19: whatever text the AI call returns, analyze-food answers 200.
C19_ReturnedTextNever500 ==
    \A r \in Invocations :
        (Done(r) /\ req[r].kind = "analyze-food" /\ ai[r].state = "resolved")
        => res[r].status = 200

\* The requests analyze-food stops at its configuration guard
ConfigurationError(q, key) ==
    LET s == AnalyzeStart(q, key, 0)
    IN  /\ ~s.await /\ s.res.status = 500
        /\ "error" \in DOMAIN s.res.fields /\ s.res.fields.error = "Configuration error"

\* C20: health answers 200 to every method, with an empty body for OPTIONS and status
\* healthy otherwise, never calls the AI service, and reports gemini as configured exactly
\* when the key is set, which is exactly when analyze-food passes its configuration guard.
C20_HealthReportsConfiguration ==
    \A r \in Invocations :
        (req[r].kind = "health" /\ pc[r] # "idle")
        => /\ Done(r) /\ res[r].status = 200
           /\ aiCalls[r] = <<>> /\ ai[r] = NoOutcome
           /\ req[r].method = "OPTIONS" => res[r].kind = "empty"
           /\ req[r].method # "OPTIONS"
                => /\ res[r].fields.status = "healthy"
                   /\ res[r].fields.gemini \in {"configured", "not_configured"}
                   /\ res[r].fields.gemini = "configured" <=> apiKey
                   /\ \A q \in RequestInputs :
                         (q.kind = "analyze-food" /\ q.method = "POST")
                         => (ConfigurationError(q, apiKey)
                                <=> res[r].fields.gemini = "not_configured")

\* health has answered a POST without a key
C20_Witness ==
    \E r \in Invocations :
        /\ Done(r) /\ req[r].kind = "health" /\ req[r].method = "POST" /\ ~apiKey
        /\ res[r].status = 200 /\ res[r].fields.gemini = "not_configured"

(***************************************************************************)
(* Properties of the invocations: records, one response, no blocking       *)
(***************************************************************************)
\* The columns of a whole food_analyses row
CompleteRow(a) ==
    DOMAIN a = {"id", "user", "created_at", "food_name", "reaction", "explanation"}

C18_ExactlyOneResponse ==
    /\ [](/\ sent[1] <= 1
          /\ pc[1] = "done" <=> sent[1] = 1
          /\ (req[1].kind = "analyze-food" /\ pc[1] = "done")
                => res[1].status \in {200, 400, 405, 500})
    /\ (req[1].kind = "analyze-food" /\ pc[1] # "idle") ~> (sent[1] = 1)
    /\ [][pc[1] = "awaiting"
            => \/ sent'[1] = sent[1] /\ res'[1] = res[1]
               \/ ai[1].state = "pending" /\ ai'[1].state \in {"resolved", "rejected"}]_vars

\* analyze-food was suspended at the AI call, the call resolved, one response was sent
C18_Witness ==
    /\ req[1].kind = "analyze-food" /\ pc[1] = "done" /\ ai[1].state = "resolved"
    /\ sent[1] = 1 /\ res[1].status = 200

\* The response of a handler as a function of its own request, the configuration, the
\* outcome of its own AI call and the time of the response
OwnResponse(q, key, outcome, t) ==
    CASE q.kind = "analyze-food" ->
            LET s == AnalyzeStart(q, key, t)
            IN  IF s.await THEN AnalyzeFinish(outcome, t) ELSE s.res
      [] q.kind = "analyze-food-simple" -> SimpleHandler(q, t)
      [] q.kind = "test" -> TestHandler(q, t)
      [] q.kind = "health" -> HealthHandler(q, key, t)

\* C15: while an analyze-food invocation is suspended at the AI call, every other
\* invocation can take its next step (a new request of any handler is served, another
\* pending AI call settles), and every response sent is the function of the invocation's
\* own request, the configuration and its own AI result.
C15_SuspensionDoesNotBlock ==
    \A r \in Invocations :
        /\ pc[r] = "awaiting"
             => \A s \in Invocations \ {r} :
                  /\ pc[s] = "idle" => \A q \in ConcInputs : ENABLED Receive(s, q)
                  /\ pc[s] = "awaiting"
                       => /\ ENABLED AIReject(s)
                          /\ \A text \in ConcTexts : ENABLED AIResolve(s, text)
        /\ Done(r)
             => /\ aiCalls[r] # <<>> => ai[r].state \in {"resolved", "rejected"}
                /\ \E t \in 0..now : res[r] = OwnResponse(req[r], apiKey, ai[r], t)

\* One analyze-food invocation is still suspended at the AI call while another one that
\* was suspended too has its AI result and its response
C15_Witness ==
    \E r, s \in Invocations :
        /\ r # s
        /\ req[r].kind = "analyze-food" /\ pc[r] = "awaiting"
        /\ req[s].kind = "analyze-food" /\ Done(s) /\ ai[s].state = "resolved"
        /\ res[s].status = 200

(***************************************************************************)
(* Properties of the history: ordering and isolation                       *)
(***************************************************************************)
\* The ids recorded for user u whose row no operation has removed
Surviving(u) == { id \in DOMAIN ledger : ledger[id].owner = u /\ ledger[id].removed = <<>> }

\* C11: after any sequence of record, deleteById and clearAll, listForUser(u) returns
\* exactly the surviving analyses of u, each once, most recent first; three analyses
\* inserted in a row for one user come back as the third, the second, the first.
C11_ListMostRecentFirst ==
    out.op = "list"
    => /\ { out.rows[i].id : i \in DOMAIN out.rows } = Surviving(out.user)
       /\ Len(out.rows) = Cardinality(Surviving(out.user))
       /\ \A i \in DOMAIN out.rows : out.rows[i] \in analyses /\ out.rows[i].user = out.user
       /\ \A i, j \in DOMAIN out.rows :
             i < j => out.rows[i].created_at > out.rows[j].created_at
       /\ Surviving(out.user) = {1, 2, 3}
             => [i \in 1..3 |-> out.rows[i].id] = <<3, 2, 1>>

\* The list of a user with three analyses A, B, C
C11_Witness ==
    /\ out.op = "list" /\ Len(out.rows) = 3
    /\ [i \in 1..3 |-> out.rows[i].id] = <<3, 2, 1>>

\* C12: no operation of a user returns, counts or removes an analysis of another user:
\* rows are removed only by calls of their owner, a getById or deleteById on an id of
\* another user answers NotFound and leaves the row in place, and listForUser and stats
\* cover the caller's own rows only.
C12_CrossUserIsolation ==
    /\ \A id \in DOMAIN ledger :
          /\ \A i \in DOMAIN ledger[id].by : ledger[id].by[i] = ledger[id].owner
          /\ \A v \in Users : id \in Surviving(v) <=> \E a \in RowsOf(v) : a.id = id
    /\ \A c \in DOMAIN calls :
          (calls[c].state = "returned" /\ calls[c].user # ledger[calls[c].id].owner)
          => calls[c].result = "NotFound"
    /\ out.op \in {"list", "getById"}
          => \A i \in DOMAIN out.rows : out.rows[i].user = out.user
    /\ out.op = "getById"
          => IF out.id \in Surviving(out.user)
             THEN out.result = "ok" /\ Len(out.rows) = 1 /\ out.rows[1].id = out.id
             ELSE out.result = "NotFound" /\ out.rows = <<>>
    /\ out.op = "stats"
          => \A r \in Reactions :
                out.counts[r] = Cardinality({ a \in analyses : /\ a.id \in Surviving(out.user)
                                                               /\ a.reaction = r })

\* A deleteById of one user on the id of a row of the other user has returned NotFound and
\* the row is still there
C12_Witness ==
    \E c \in DOMAIN calls :
        /\ calls[c].state = "returned" /\ calls[c].result = "NotFound"
        /\ ledger[calls[c].id].owner \in Users \ {calls[c].user}
        /\ calls[c].id \in Surviving(ledger[calls[c].id].owner)
        /\ \E a \in analyses : a.id = calls[c].id /\ a.user # calls[c].user

(***************************************************************************)
(* Properties of the profile store under concurrent upserts                *)
(***************************************************************************)
\* The committed upserts of user u
Committed(u) == { w \in DOMAIN writes : writes[w].state = "committed" /\ writes[w].user = u }

\* The upsert of user u that committed last
LastCommitted(u) ==
    CHOOSE w \in Committed(u) : \A v \in Committed(u) : writes[v].order <= writes[w].order

\* C13: every user has at most one gut profile row in every state, also between and after
\* interleaved upserts of the same user, and the row is in full the profile of the upsert
\* of that user that committed last, never a mix of columns of two upserts.
C13_OneProfileLastWriteWins ==
    \A u \in Users :
        LET rows == { row \in gut_profiles : row.user_id = u }
        IN  /\ Cardinality(rows) <= 1
            /\ Committed(u) = {} => rows = {}
            /\ Committed(u) # {}
                 => rows = {ProfileRow(u, writes[LastCommitted(u)].profile)}

\* Two upserts of one user with different profiles, both begun before either committed,
\* have both committed
C13_Witness ==
    \E w1, w2 \in DOMAIN writes :
        /\ writes[w1].state = "committed" /\ writes[w2].state = "committed"
        /\ writes[w1].user = writes[w2].user
        /\ writes[w1].profile # writes[w2].profile
        /\ writes[w1].base = 0 /\ writes[w2].base = 0
        /\ writes[w1].order < writes[w2].order
        /\ gut_profiles = {ProfileRow(writes[w2].user, writes[w2].profile)}
====
